---------------------------- MODULE Spec2Model ----------------------------
(***************************************************************************)
(* A model of mripy's event-locked time-course engine (timecourse.py):     *)
(* the Recording Collection (RawCache) and its cache blobs, the Event      *)
(* Timeline Parser (read_events, events_from_dataframe), the Epoch         *)
(* Extractor (Epochs.__init__, create_base_corr_func) and Epoch            *)
(* Collection selection (Epochs.pick, drop_events, apply_baseline).        *)
(*                                                                         *)
(* Conventions of the model                                                *)
(*   - time is counted in integer ticks; a step dt is an even number of    *)
(*     ticks, so that the dt/2 of the code's arange bounds is a tick count;*)
(*   - info['sfreq'] is held as its reciprocal, the sample period in ticks *)
(*     (sfreq = 1/TR at line 40, sfreq = 1/dt at line 267);                *)
(*   - sample values are integers, multiples of Unit in a recording, so    *)
(*     that linear interpolation and the means of baseline correction are  *)
(*     exact; NaN is the not-a-number fill value of the interpolant;       *)
(*   - an event name is the sequence of its '/'-separated tokens;          *)
(*   - an info dict is a function from its keys to their values, and the   *)
(*     dicts live in the heap `infos`: objects name their dict by its      *)
(*     index, so that a shallow copy shares the dict as copy.copy does.    *)
(***************************************************************************)
EXTENDS Integers, Sequences, FiniteSets, TLC

VARIABLES
    rc,       \* the RawCache object: [raws, mask]; a raw is [data, times, mask, info]
    infos,    \* heap of info dicts, indexed by the `info` field of raws, epochs, evokeds
    epochs,   \* the Epochs objects the caller holds: [data, events, event_id, times, info]
    store,    \* the cache blobs on disk: path -> persisted dict
    hist,     \* for each path, the blob its first writer stored (history)
    parsed,   \* the last call of the Event Timeline Parser and its outcome
    last,     \* the last call on the collections and its outcome (history)
    ncalls,   \* the number of calls made so far
    evoked    \* the Evoked objects the caller holds: [info, data, times, error]

vars == <<rc, infos, epochs, store, hist, parsed, last, ncalls, evoked>>

----------------------------------------------------------------------------
(* Bounds of the model                                                      *)

MaxEvents == 2      \* rows of an event array handed to the extractor
MaxCalls == 2       \* calls in one behaviour of SpecExtract
MaxPicks == 1       \* calls in one behaviour of SpecSel
MaxLines == 2       \* lines of a timing file, rows of a trial table

----------------------------------------------------------------------------
(* Generic helpers                                                          *)

Max(a, b) == IF a >= b THEN a ELSE b

CeilDiv(a, b) == -((-a) \div b)

RECURSIVE Sum(_)
Sum(s) == IF Len(s) = 0 THEN 0 ELSE Head(s) + Sum(Tail(s))

Reverse(s) == [i \in 1..Len(s) |-> s[Len(s) + 1 - i]]

Range(s) == {s[i] : i \in 1..Len(s)}

\* s[mask] for a boolean index `mask` of the length of s
RECURSIVE BoolIndex(_, _)
BoolIndex(s, mask) ==
    IF Len(s) = 0 THEN <<>>
    ELSE (IF Head(mask) THEN <<Head(s)>> ELSE <<>>) \o BoolIndex(Tail(s), Tail(mask))

\* s[idx] for an integer index list (0-based, as in the code)
IntIndex(s, idx) == [i \in 1..Len(idx) |-> s[idx[i] + 1]]

\* dict[key] = value on a dict held as a function
SetKey(d, k, v) == [x \in (DOMAIN d) \cup {k} |-> IF x = k THEN v ELSE d[x]]

RECURSIVE Gcd(_, _)
Gcd(a, b) == IF b = 0 THEN a ELSE Gcd(b, a % b)

RECURSIVE LcmUpTo(_)
LcmUpTo(n) == IF n <= 1 THEN 1 ELSE (LcmUpTo(n - 1) * n) \div Gcd(LcmUpTo(n - 1), n)

----------------------------------------------------------------------------
(* Values: numbers and not-a-number                                         *)

NaN == -999999

Sub(a, b) == IF a = NaN \/ b = NaN THEN NaN ELSE a - b

IsNum(v) == v # NaN

\* np.nanmean over a 1-D slice: the mean of the numbers, NaN when there is none
NanMean(xs) ==
    LET ok == SelectSeq(xs, IsNum)
    IN  IF Len(ok) = 0 THEN NaN ELSE Sum(ok) \div Len(ok)

----------------------------------------------------------------------------
(* np.arange and the relative-time grid                                     *)

\* np.arange(start, stop, step): ceil((stop - start)/step) values from start
Arange(start, stop, step) ==
    LET n == IF step > 0 THEN Max(0, CeilDiv(stop - start, step))
                         ELSE Max(0, CeilDiv(start - stop, -step))
    IN  [i \in 1..n |-> start + (i - 1) * step]

\* Epochs.times (line 277)
EpochTimesHalfOpen(tmin, tmax, dt) == Arange(tmin, tmax, dt)

EpochTimes(tmin, tmax, dt) ==
    IF tmin < 0 /\ tmax > 0
    THEN Reverse(Arange(-dt, tmin - dt \div 2, -dt)) \o Arange(0, tmax + dt \div 2, dt)
    ELSE Arange(tmin, tmax + dt \div 2, dt)

\* The times at which the recording is sampled for an event at onset t (line 287)
SampleTimes(t, tmin, tmax, dt) == Arange(t + tmin, t + tmax + dt \div 2, dt)


----------------------------------------------------------------------------
(* Continuous Recording (Raw) and Recording Collection (RawCache)           *)

\* One recorded sample is a multiple of Unit: interpolation between samples
\* TRTicks apart and means over up to MaxGrid grid points are then exact.
TRTicks == 2       \* the TR handed to RawCache, in ticks
MaxGrid == 5       \* the most points of a relative-time grid
Unit == TRTicks * LcmUpTo(MaxGrid)

\* The source files as the external reader returns them: a row per voxel
Voxels == <<"v1", "v2">>

Volume(fname) ==
    IF fname = "runA"
    THEN << <<0, Unit, 3 * Unit, 2 * Unit, 5 * Unit>>,
            <<4 * Unit, 4 * Unit, Unit, 0, 2 * Unit>> >>
    ELSE << <<2 * Unit, 0, Unit, 4 * Unit, 3 * Unit>>,
            <<Unit, 5 * Unit, 2 * Unit, 2 * Unit, 0>> >>

\* A spatial mask is the list of the voxels it keeps; mask.dump(fname)
\* (line 35) is the [n_features, n_times] array of their rows
MaskDump(fname, mask) ==
    BoolIndex(Volume(fname), [i \in 1..Len(Voxels) |-> Voxels[i] \in Range(mask)])

\* Raw.__init__ with a mask: the info dict it builds (lines 39-42)
RawInfo(TR) == [sfreq |-> TR, feature_name |-> "voxel", value_name |-> "value"]

\* Raw.__init__ (lines 30-43); `info` is the heap index of its info dict
RawInit(fname, mask, info) ==
    LET data == MaskDump(fname, mask)
    IN  [data |-> data,
         times |-> [i \in 1..Len(data[1]) |-> (i - 1) * TRTicks],
         mask |-> mask,
         info |-> info]

\* Raw.TR (line 48)
RawTR(raw, heap) == heap[raw.info].sfreq

\* RawCache.__init__, fresh construction (lines 119-120): raws and their dicts
\* in the heap cells base+1 .. base+n
NewRaws(fnames, mask, base) == [i \in 1..Len(fnames) |-> RawInit(fnames[i], mask, base + i)]

NewInfos(fnames) == [i \in 1..Len(fnames) |-> RawInfo(TRTicks)]

\* RawCache.get_raws with a boolean index, ids=None (lines 130-151):
\* shallow copies that share the info dict, with data and mask re-bound
GetRaws(cache, selector) ==
    [i \in 1..Len(cache.raws) |->
        [data |-> BoolIndex(cache.raws[i].data, selector),
         times |-> cache.raws[i].times,
         mask |-> BoolIndex(cache.mask, selector),
         info |-> cache.raws[i].info]]

\* Raw.to_dict (line 94): the dict holds the info dict itself
RawToDict(raw, heap) ==
    [info |-> heap[raw.info], data |-> raw.data, mask |-> raw.mask, times |-> raw.times]

\* RawCache.to_dict (line 165)
RawCacheToDict(cache, heap) ==
    [raws |-> [i \in 1..Len(cache.raws) |-> RawToDict(cache.raws[i], heap)],
     mask |-> cache.mask]

----------------------------------------------------------------------------
(* The interpolant (line 283)                                               *)

\* interp1d(raw.times, x, kind='linear', fill_value=nan, bounds_error=False)
\* at time t, for the feature row `row`
Interp1(times, row, t) ==
    IF t < times[1] \/ t > times[Len(times)] THEN NaN
    ELSE LET step == times[2] - times[1]
             i == (t - times[1]) \div step + 1
             r == (t - times[1]) % step
         IN  IF r = 0 THEN row[i]
             ELSE row[i] + ((row[i + 1] - row[i]) * r) \div step

\* f(ts): [n_features, len(ts)]
Interp(raw, ts) ==
    [f \in 1..Len(raw.data) |-> [j \in 1..Len(ts) |-> Interp1(raw.times, raw.data[f], ts[j])]]

----------------------------------------------------------------------------
(* Baseline correction (create_base_corr_func, lines 234-257)               *)

BaselineNone == [kind |-> "none"]
BaselineAll == [kind |-> "all"]
\* (lo, hi); a bound is <<>> for None and <<t>> for the time t
BaselineWin(lo, hi) == [kind |-> "win", lo |-> lo, hi |-> hi]

\* time_sel (lines 253-256)
TimeSel(times, baseline) ==
    LET tmin == IF baseline.lo = <<>> THEN times[1] ELSE baseline.lo[1]
        tmax == IF baseline.hi = <<>> THEN times[Len(times)] ELSE baseline.hi[1]
    IN  [j \in 1..Len(times) |-> tmin <= times[j] /\ times[j] <= tmax]

\* The returned function on one 1-D slice along the last axis
BaseCorrRow(times, baseline, row) ==
    IF baseline.kind = "none" THEN row
    ELSE IF baseline.kind = "all"
    THEN [j \in 1..Len(row) |-> Sub(row[j], NanMean(row))]
    ELSE [j \in 1..Len(row) |-> Sub(row[j], NanMean(BoolIndex(row, TimeSel(times, baseline))))]

\* on a [n_features, n_times] slice
BaseCorr2(times, baseline, x) == [f \in 1..Len(x) |-> BaseCorrRow(times, baseline, x[f])]

\* on a [n_events, n_features, n_times] tensor
BaseCorr3(times, baseline, x) == [k \in 1..Len(x) |-> BaseCorr2(times, baseline, x[k])]

----------------------------------------------------------------------------
(* Epoch extraction (Epochs.__init__, lines 261-287)                        *)

Onset(ev) == ev[1]
Label(ev) == ev[3]
Labels(events) == {Label(events[k]) : k \in 1..Len(events)}

\* _default_event_id (lines 230-231)
DefaultEventId(events) ==
    LET ids == Labels(events)
    IN  [name \in {<<ToString(id)>> : id \in ids} |->
            CHOOSE id \in ids : name = <<ToString(id)>>]

\* The keys the constructor writes into the info dict it takes from the raw
\* (lines 266-276); `d` is that very dict
EpochsInfo(d, w, baseline) ==
    SetKey(SetKey(SetKey(SetKey(SetKey(SetKey(SetKey(SetKey(d,
        "sfreq", w.dt), "tmin", w.tmin), "tmax", w.tmax), "baseline", baseline),
        "interp", "linear"), "hamm", <<>>), "conditions", <<>>), "condition", <<>>)

\* The [features, time] slice stored for the event at onset t (line 287)
EpochSlice(raw, t, w, baseline) ==
    BaseCorr2(EpochTimes(w.tmin, w.tmax, w.dt), baseline,
              Interp(raw, SampleTimes(t, w.tmin, w.tmax, w.dt)))

\* Line 287 raises when the slice has not the shape of self.data[k]: the
\* sampled times and the grid differ in length; never with no event.
EpochsFails(events, w) ==
    /\ Len(events) > 0
    /\ Len(SampleTimes(0, w.tmin, w.tmax, w.dt)) # Len(EpochTimes(w.tmin, w.tmax, w.dt))

\* The object the constructor builds
EpochsInit(raw, events, event_id, w, baseline) ==
    [data |-> [k \in 1..Len(events) |-> EpochSlice(raw, Onset(events[k]), w, baseline)],
     events |-> events,
     event_id |-> event_id,
     times |-> EpochTimes(w.tmin, w.tmax, w.dt),
     info |-> raw.info]

\* Epochs.to_dict (line 481)
EpochsToDict(ep, heap) ==
    [info |-> heap[ep.info], data |-> ep.data, events |-> ep.events,
     event_id |-> ep.event_id, times |-> ep.times]

----------------------------------------------------------------------------
(* concatinate_epochs (lines 493-498)                                       *)

RECURSIVE ConcatData(_)
ConcatData(list) == IF Len(list) = 0 THEN <<>> ELSE Head(list).data \o ConcatData(Tail(list))

RECURSIVE ConcatEvents(_)
ConcatEvents(list) ==
    IF Len(list) = 0 THEN <<>> ELSE Head(list).events \o ConcatEvents(Tail(list))

\* {k: v for epochs in epochs_list for k, v in epochs.event_id.items()}:
\* a later collection's entry replaces an earlier one's
FirstEventId(list) == list[1].event_id

RECURSIVE MergeEventId(_)
MergeEventId(list) ==
    IF Len(list) = 0 THEN <<>>
    ELSE LET n == Len(list)
         IN  list[n].event_id @@ MergeEventId(SubSeq(list, 1, n - 1))

ConcatinateEpochs(list) ==
    [data |-> ConcatData(list),
     events |-> ConcatEvents(list),
     event_id |-> MergeEventId(list),
     times |-> list[1].times,
     info |-> list[1].info]


----------------------------------------------------------------------------
(* Inputs of the extraction calls                                           *)

\* (tmin, tmax, dt) in ticks; the default window (-5, 15, 0.1) has the shape
\* of the first one.  -3 and -1 are no multiples of dt = 2.
Windows ==
    { [tmin |-> -4, tmax |-> 4, dt |-> 2],
      [tmin |-> -3, tmax |-> 4, dt |-> 2],
      [tmin |-> -1, tmax |-> 3, dt |-> 2],
      [tmin |-> 0, tmax |-> 4, dt |-> 2],
      [tmin |-> -4, tmax |-> 4, dt |-> 4] }

DefaultBaseline == BaselineWin(<<-2>>, <<0>>)

Baselines ==
    { BaselineNone, BaselineAll, DefaultBaseline,
      BaselineWin(<<-4>>, <<-2>>), BaselineWin(<<>>, <<0>>) }

\* Event names and the dictionary of a two-factor design
EventId ==
    [name \in { <<"Physical", "Left">>, <<"Physical", "Right">>, <<"Visual", "Left">> } |->
        IF name = <<"Physical", "Left">> THEN 1
        ELSE IF name = <<"Physical", "Right">> THEN 2 ELSE 3]

\* The k-th trial of a run: (onset, duration, label), an onset every 4 ticks
Trial(k) == <<4 * (k - 1), 0, 1 + ((k - 1) % 2)>>

\* Event arrays [n, 3]: the trials of a run that a condition set keeps, in
\* ascending order of onset
EventArrays ==
    { BoolIndex([k \in 1..MaxEvents |-> Trial(k)], keep) : keep \in [1..MaxEvents -> BOOLEAN] }

\* Boolean feature selectors on a mask: every voxel, or the first one
SelectorsFor(mask) == { [i \in 1..Len(mask) |-> TRUE], [i \in 1..Len(mask) |-> i = 1] }

----------------------------------------------------------------------------
(* The calls: Epochs(...), RawCache.get_epochs(...), apply_baseline(...)    *)

\* What is seen of the recordings of the cache: each Raw's attributes with
\* the content of its info dict
RawsView == [i \in 1..Len(rc.raws) |-> RawToDict(rc.raws[i], infos)]

\* The heap after the constructor ran on the raws 1..m of `raws`
InfosAfterInit(heap, raws, m, w, baseline) ==
    [i \in 1..Len(heap) |->
        IF \E r \in 1..m : raws[r].info = i THEN EpochsInfo(heap[i], w, baseline)
        ELSE heap[i]]

\* The first run at which the constructor raises, or the number of runs
FirstFail(evs, w) ==
    IF \E i \in 1..Len(evs) : EpochsFails(evs[i], w)
    THEN CHOOSE i \in 1..Len(evs) :
            /\ EpochsFails(evs[i], w)
            /\ \A j \in 1..(i - 1) : ~EpochsFails(evs[j], w)
    ELSE Len(evs)

\* event_id=None is <<>>, a dictionary d is <<d>>
EventIdFor(event_id, events) ==
    IF event_id = <<>> THEN DefaultEventId(events) ELSE event_id[1]

\* ep = Epochs(rc.raws[r], events, event_id, tmin, tmax, baseline, dt)
\* (lines 261-287).  The info dict is written before line 287 can raise.
EpochsCall(r, events, event_id, w, baseline) ==
    LET raw == rc.raws[r]
        ok == ~EpochsFails(events, w)
        ep == EpochsInit(raw, events, EventIdFor(event_id, events), w, baseline)
    IN  /\ infos' = InfosAfterInit(infos, <<raw>>, 1, w, baseline)
        /\ epochs' = IF ok THEN Append(epochs, ep) ELSE epochs
        /\ last' = [op |-> "Epochs", ok |-> ok, res |-> Len(epochs) + 1, pre |-> RawsView,
                    raws |-> <<raw>>, evs |-> <<events>>, w |-> w, baseline |-> baseline]
        /\ ncalls' = ncalls + 1
        /\ UNCHANGED <<rc, store, hist, parsed, evoked>>

\* Savable.save / Savable.load through the persistence collaborator
\* (lines 18-26): the blob at a path is the saved dict.
\* utils.exists(cache_file), after the test for None (lines 118, 155)
NeverExists(cache_file) == FALSE

Exists(cache_file) == cache_file # <<>> /\ cache_file[1] \in DOMAIN store

Save(blobs, path, d) == [p \in (DOMAIN blobs) \cup {path} |-> IF p = path THEN d ELSE blobs[p]]

\* hist: the first blob stored at each path
Record(path, d) == IF path \in DOMAIN hist THEN hist ELSE Save(hist, path, d)

\* Epochs.from_dict (lines 484-490): the attributes are the keys of the blob;
\* the loaded info dict is a dict of its own, in the heap cell `cell`
EpochsFromDict(d, cell) ==
    IF "info" \in DOMAIN d THEN [k \in DOMAIN d |-> IF k = "info" THEN cell ELSE d[k]] ELSE d

\* epochs = rc.get_epochs(mask, events, event_id, cache_file, **kwargs)
\* (lines 153-162), with len(events) == n_runs
GetEpochsCall(selector, evs, event_id, cache_file, w, baseline) ==
    /\ Len(evs) = Len(rc.raws)
    /\ IF ~Exists(cache_file)
       THEN LET raws == GetRaws(rc, selector)
                m == FirstFail(evs, w)
                ok == \A i \in 1..Len(evs) : ~EpochsFails(evs[i], w)
                heap == InfosAfterInit(infos, raws, m, w, baseline)
                ep == ConcatinateEpochs([i \in 1..Len(raws) |->
                        EpochsInit(raws[i], evs[i], EventIdFor(event_id, evs[i]), w, baseline)])
                saved == ok /\ cache_file # <<>>
            IN  /\ infos' = heap
                /\ epochs' = IF ok THEN Append(epochs, ep) ELSE epochs
                /\ store' = IF saved THEN Save(store, cache_file[1], EpochsToDict(ep, heap))
                            ELSE store
                /\ hist' = IF saved THEN Record(cache_file[1], EpochsToDict(ep, heap))
                           ELSE hist
                /\ last' = [op |-> "get_epochs", ok |-> ok, res |-> Len(epochs) + 1,
                            pre |-> RawsView, raws |-> raws, evs |-> evs, w |-> w,
                            baseline |-> baseline, path |-> cache_file, store0 |-> store,
                            fresh |-> TRUE,
                            result |-> IF ok THEN EpochsToDict(ep, heap) ELSE <<>>]
       ELSE LET blob == store[cache_file[1]]
                cell == Len(infos) + 1
                heap == IF "info" \in DOMAIN blob THEN Append(infos, blob.info) ELSE infos
                ep == EpochsFromDict(blob, cell)
            IN  /\ infos' = heap
                /\ epochs' = Append(epochs, ep)
                /\ last' = [op |-> "get_epochs", ok |-> TRUE, res |-> Len(epochs) + 1,
                            pre |-> RawsView, raws |-> <<>>, evs |-> evs, w |-> w,
                            baseline |-> baseline, path |-> cache_file, store0 |-> store,
                            fresh |-> FALSE,
                            result |-> IF "info" \in DOMAIN ep THEN EpochsToDict(ep, heap)
                                       ELSE ep]
                /\ UNCHANGED <<store, hist>>
    /\ ncalls' = ncalls + 1
    /\ UNCHANGED <<rc, parsed, evoked>>

\* inst = epochs[e].apply_baseline(baseline) (lines 388-393); the copy shares
\* the info dict, whose 'baseline' key is written
ApplyBaselineCall(e, baseline) ==
    LET src == epochs[e]
        inst == [src EXCEPT !.data = BaseCorr3(src.times, baseline, src.data)]
    IN  /\ epochs' = Append(epochs, inst)
        /\ infos' = [infos EXCEPT ![src.info] = SetKey(@, "baseline", baseline)]
        /\ last' = [op |-> "apply_baseline", ok |-> TRUE, res |-> Len(epochs) + 1,
                    pre |-> RawsView, src |-> e, baseline |-> baseline, from |-> last]
        /\ ncalls' = ncalls + 1
        /\ UNCHANGED <<rc, store, hist, parsed, evoked>>

----------------------------------------------------------------------------
(* SpecExtract: a Recording Collection of two runs, built without a cache   *)
(* path, and the extraction calls on it                                     *)

TwoRuns == <<"runA", "runB">>

InitExtract ==
    /\ rc = [raws |-> NewRaws(TwoRuns, Voxels, 0), mask |-> Voxels]
    /\ infos = NewInfos(TwoRuns)
    /\ epochs = <<>>
    /\ store = <<>>
    /\ hist = <<>>
    /\ parsed = [op |-> "init"]
    /\ last = [op |-> "init"]
    /\ ncalls = 0
    /\ evoked = <<>>

\* ep = Epochs(raw, events, event_id, tmin, tmax, baseline, dt) on a Raw of the cache
DoEpochs ==
    /\ ncalls < MaxCalls
    /\ \E r \in 1..Len(rc.raws), events \in EventArrays, w \in Windows,
          baseline \in {BaselineNone, DefaultBaseline, BaselineWin(<<-4>>, <<-2>>)} :
            EpochsCall(r, events, <<EventId>>, w, baseline)

\* rc.get_epochs(mask, events, None, tmin=.., tmax=.., dt=.., baseline='all')
DoGetEpochs ==
    /\ ncalls < MaxCalls
    /\ \E selector \in SelectorsFor(rc.mask), ev \in EventArrays,
          w \in {[tmin |-> -4, tmax |-> 4, dt |-> 2], [tmin |-> -1, tmax |-> 3, dt |-> 2]} :
            GetEpochsCall(selector, <<ev, Reverse(ev)>>, <<>>, <<>>, w, BaselineAll)

\* ep.apply_baseline(baseline) on a collection the caller holds
DoApplyBaseline ==
    /\ ncalls < MaxCalls
    /\ \E e \in 1..Len(epochs), baseline \in Baselines \ {BaselineNone} :
            ApplyBaselineCall(e, baseline)

NextExtract == DoEpochs \/ DoGetEpochs \/ DoApplyBaseline

SpecExtract == InitExtract /\ [][NextExtract]_vars

----------------------------------------------------------------------------
(* Claims on epoch extraction                                               *)

IsExtraction(call) == call.op \in {"Epochs", "get_epochs"}

\* C4: epoch extraction only reads its source recordings: after Epochs(...)
\* or get_epochs(...), every recording of the cache has the data, times, mask
\* and metadata it had before the call, and its time vector is still spaced
\* by 1/sampling-rate.
C4_ExtractionReadsOnly ==
    IsExtraction(last) =>
        /\ RawsView = last.pre
        /\ \A r \in 1..Len(rc.raws) : \A j \in 1..(Len(rc.raws[r].times) - 1) :
              rc.raws[r].times[j + 1] - rc.raws[r].times[j] = RawTR(rc.raws[r], infos)

\* C5: for every window for which the construction succeeds, with baseline
\* 'none', the tensor entry data[k, f, j] is the interpolant of the recording
\* at events[k].onset + times[j], also when tmin is no multiple of dt.
C5_SampledOnGrid ==
    (last.op = "Epochs" /\ last.ok /\ last.baseline = BaselineNone) =>
        LET ep == epochs[last.res]
            raw == last.raws[1]
        IN  \A k \in 1..Len(ep.events) : \A f \in 1..Len(raw.data) : \A j \in 1..Len(ep.times) :
                ep.data[k][f][j]
                    = Interp1(raw.times, raw.data[f], Onset(ep.events[k]) + ep.times[j])

\* C6: extraction on an event array with zero rows fails; it never returns an
\* Epoch Collection, neither from Epochs(raw, events) nor for a run inside
\* get_epochs.
C6_EmptyEventSetFails ==
    (IsExtraction(last) /\ \E i \in 1..Len(last.evs) : Len(last.evs[i]) = 0) => ~last.ok

\* The tensor of extracting the events of the call `ext` directly with
\* baseline b
DirectData(ext, b) ==
    ConcatData([i \in 1..Len(ext.raws) |->
        EpochsInit(ext.raws[i], ext.evs[i], <<>>, ext.w, b)])

\* C10: apply_baseline replaces the prior correction: on a collection
\* extracted with baseline B1 (also when the B1 window of an event holds only
\* missing values), apply_baseline(B2) with a non-trivial B2 yields the tensor
\* of extracting the same events with B2 directly.
C10_ApplyBaselineReplaces ==
    (/\ last.op = "apply_baseline"
     /\ IsExtraction(last.from) /\ last.from.ok /\ last.from.res = last.src) =>
        epochs[last.res].data = DirectData(last.from, last.baseline)

----------------------------------------------------------------------------
(* Epoch Collection selection (Epochs.pick, drop_events, lines 336-386)     *)

\* matched_id of one key (lines 383-384): the labels of the stored names
\* whose tokens include the key's tokens
MatchedIdExact(ep, key) ==
    {ep.event_id[ev] : ev \in {e \in DOMAIN ep.event_id : Range(key) = Range(e)}}

MatchedId(ep, key) ==
    {ep.event_id[ev] : ev \in {e \in DOMAIN ep.event_id : Range(key) \subseteq Range(e)}}

\* np.in1d(events[:,-1], ids)
In1d(events, ids) == [k \in 1..Len(events) |-> Label(events[k]) \in ids]

\* Epochs._partial_match_event (lines 378-386): the rows any key matches
PartialMatchEvent(ep, keys) ==
    [k \in 1..Len(ep.events) |->
        \E i \in 1..Len(keys) : In1d(ep.events, MatchedId(ep, keys[i]))[k]]

\* {ev: id for ev, id in event_id.items() if id in events[:,-1]} (lines 347, 375)
NoPrune(event_id, events) == event_id

Prune(event_id, events) ==
    [ev \in {e \in DOMAIN event_id : event_id[e] \in Labels(events)} |-> event_id[ev]]

\* Selectors: None is [kind |-> "none"]; label names, a boolean mask, an index
\* list (0-based) or, for time, inclusive bounds
SelNone == [kind |-> "none"]
SelNames(keys) == [kind |-> "names", keys |-> keys]
SelMask(mask) == [kind |-> "mask", mask |-> mask]
SelIndex(idx) == [kind |-> "index", idx |-> idx]
SelRange(lo, hi) == [kind |-> "range", lo |-> lo, hi |-> hi]

\* s[sel] along one axis; `ep` is the collection the names and bounds are
\* resolved against (self, lines 342 and 357)
Select(s, sel, ep) ==
    IF sel.kind = "none" THEN s
    ELSE IF sel.kind = "names" THEN BoolIndex(s, PartialMatchEvent(ep, sel.keys))
    ELSE IF sel.kind = "mask" THEN BoolIndex(s, sel.mask)
    ELSE IF sel.kind = "index" THEN IntIndex(s, sel.idx)
    ELSE BoolIndex(s, [j \in 1..Len(ep.times) |-> sel.lo <= ep.times[j] /\ ep.times[j] <= sel.hi])

\* inst.data[sel_event][:,sel_feature][...,sel_time] (line 365)
SelectData(data, event, feature, time, ep) ==
    LET rows == Select(data, event, ep)
    IN  [k \in 1..Len(rows) |->
            LET feats == Select(rows[k], feature, ep)
            IN  [f \in 1..Len(feats) |-> Select(feats[f], time, ep)]]

\* np.delete(s, ids, axis=0)
Delete(s, ids) == BoolIndex(s, [k \in 1..Len(s) |-> (k - 1) \notin ids])

\* inst = epochs[s].pick(event, feature, time) (lines 336-366).  The copy
\* shares the info dict.  A label-name selection writes self.info['condition']
\* (line 343); line 361 raises when no time is left, after that write.
PickCall(s, event, feature, time) ==
    LET src == epochs[s]
        events == Select(src.events, event, src)
        times == Select(src.times, time, src)
        ok == Len(times) > 0
        inst == [data |-> SelectData(src.data, event, feature, time, src),
                 events |-> events,
                 event_id |-> Prune(src.event_id, events),
                 times |-> times,
                 info |-> src.info]
        d1 == IF event.kind = "names" THEN SetKey(infos[src.info], "condition", event.keys)
              ELSE infos[src.info]
        d2 == IF ok THEN SetKey(SetKey(d1, "tmin", times[1]), "tmax", times[Len(times)])
              ELSE d1
    IN  /\ infos' = [infos EXCEPT ![src.info] = d2]
        /\ epochs' = IF ok THEN Append(epochs, inst) ELSE epochs
        /\ last' = [op |-> "pick", ok |-> ok, res |-> Len(epochs) + 1, src |-> s,
                    pre |-> EpochsToDict(src, infos),
                    event |-> event, feature |-> feature, time |-> time, from |-> last]
        /\ ncalls' = ncalls + 1
        /\ UNCHANGED <<rc, store, hist, parsed, evoked>>

\* inst = epochs[s].drop_events(ids) (lines 371-376)
DropEventsCall(s, ids) ==
    LET src == epochs[s]
        events == Delete(src.events, ids)
        inst == [data |-> Delete(src.data, ids),
                 events |-> events,
                 event_id |-> Prune(src.event_id, events),
                 times |-> src.times,
                 info |-> src.info]
    IN  /\ epochs' = Append(epochs, inst)
        /\ last' = [op |-> "drop_events", ok |-> TRUE, res |-> Len(epochs) + 1, src |-> s,
                    pre |-> EpochsToDict(src, infos), ids |-> ids]
        /\ ncalls' = ncalls + 1
        /\ UNCHANGED <<rc, infos, store, hist, parsed, evoked>>

----------------------------------------------------------------------------
(* SpecSel: one Epoch Collection extracted from a recording, and the        *)
(* selections made on it and on their results                               *)

\* Event arrays of up to MaxEvents rows with any labels of the dictionary,
\* an onset every 4 ticks
LabelledEventArrays ==
    UNION { { [k \in 1..n |-> <<4 * (k - 1), 0, lab[k]>>] : lab \in [1..n -> {1, 2, 3}] } :
            n \in 0..MaxEvents }

SelWindow == [tmin |-> -4, tmax |-> 4, dt |-> 2]

InitSel ==
    /\ rc = [raws |-> NewRaws(<<"runA">>, Voxels, 0), mask |-> Voxels]
    /\ \E events \in LabelledEventArrays :
          /\ epochs = <<EpochsInit(rc.raws[1], events, EventId, SelWindow, BaselineNone)>>
          /\ infos = <<EpochsInfo(RawInfo(TRTicks), SelWindow, BaselineNone)>>
    /\ store = <<>>
    /\ hist = <<>>
    /\ parsed = [op |-> "init"]
    /\ last = [op |-> "init"]
    /\ ncalls = 0
    /\ evoked = <<>>

\* Queries: one name or a list of names
QueryLists ==
    { << <<"Physical">> >>, << <<"Left">> >>, << <<"Left", "Physical">> >>,
      << <<"Physical", "Right">> >>, << <<"Visual">> >>, << <<"Up">> >>,
      << <<"Physical", "Left", "Up">> >>,
      << <<"Right">>, <<"Visual">> >>, << <<"Left", "Physical">>, <<"Up">> >> }

\* Index lists on n rows: the first row, the rows in reverse order, a row twice
IndexLists(n) ==
    IF n = 0 THEN {} ELSE { <<0>>, <<n - 1, 0>>, <<0, 0>> }

\* ep[name], ep[[name, ...]]
PickByName ==
    /\ ncalls < MaxPicks
    /\ \E s \in 1..Len(epochs), keys \in QueryLists :
          PickCall(s, SelNames(keys), SelNone, SelNone)

\* ep[mask], ep[[i, ...]]
PickByIndex ==
    /\ ncalls < MaxPicks
    /\ \E s \in 1..Len(epochs) :
          \E event \in {SelMask(m) : m \in [1..Len(epochs[s].events) -> BOOLEAN]}
                       \cup {SelIndex(idx) : idx \in IndexLists(Len(epochs[s].events))} :
             PickCall(s, event, SelNone, SelNone)

\* ep.pick(event, feature, time) with a feature and/or a time selection
PickFeatureTime ==
    /\ ncalls < MaxPicks
    /\ \E s \in 1..Len(epochs),
          event \in {SelNone, SelNames(<< <<"Left">> >>)},
          feature \in {SelNone, SelIndex(<<0>>), SelMask(<<FALSE, TRUE>>)},
          time \in {SelNone, SelRange(0, 4), SelRange(-3, 1), SelRange(5, 7)} :
             /\ feature.kind = "mask" =>
                    Len(epochs[s].data) > 0 /\ Len(feature.mask) = Len(epochs[s].data[1])
             /\ ~(feature = SelNone /\ time = SelNone)
             /\ PickCall(s, event, feature, time)

\* ep.drop_events(ids)
DropEvents ==
    /\ ncalls < MaxPicks
    /\ \E s \in 1..Len(epochs) : \E ids \in SUBSET (0..(Len(epochs[s].events) - 1)) :
          DropEventsCall(s, ids)

NextSel == PickByName \/ PickByIndex \/ PickFeatureTime \/ DropEvents

SpecSel == InitSel /\ [][NextSel]_vars

----------------------------------------------------------------------------
(* Claims on selection                                                      *)

\* A query name matches a stored name when its token set is a subset of the
\* stored name's token set
NameMatches(query, stored) == Range(query) \subseteq Range(stored)

\* The pick by label names that `last` records
IsPickByName == last.op = "pick" /\ last.ok /\ last.event.kind = "names"

\* C1: a pick by label names selects a row if and only if, for at least one
\* query name, the query's tokens are a subset of the tokens of a stored name
\* whose label the row carries; the selected rows keep their relative order.
C1_PickByNameSubset ==
    IsPickByName =>
        LET Selected(row) ==
                \E i \in 1..Len(last.event.keys) : \E stored \in DOMAIN last.pre.event_id :
                    /\ last.pre.event_id[stored] = Label(row)
                    /\ NameMatches(last.event.keys[i], stored)
        IN  epochs[last.res].events = SelectSeq(last.pre.events, Selected)

\* C1 witness: a list of two query names, one of which lists its tokens in
\* another order than the stored name, selected some rows and left out others
C1_Witness ==
    /\ IsPickByName
    /\ Len(last.event.keys) = 2
    /\ <<"Left", "Physical">> \in Range(last.event.keys)
    /\ Len(epochs[last.res].events) > 0
    /\ Len(epochs[last.res].events) < Len(last.pre.events)

\* The entries of a dictionary whose label occurs in an event array
Restricted(event_id, events) ==
    [name \in {n \in DOMAIN event_id : \E k \in 1..Len(events) : Label(events[k]) = event_id[n]}
        |-> event_id[name]]

\* The rows (1-based) that np.delete leaves for the 0-based ids
KeptRows(n, ids) == {k \in 1..n : (k - 1) \notin ids}

\* C2: after a pick and after drop_events, the result's dictionary holds
\* exactly the source's entries whose label occurs in the result's event
\* array, every label present has its entry, and drop_events removes the same
\* rows from the tensor and from the event array.
C2_DictionaryPruned ==
    (last.op \in {"pick", "drop_events"} /\ last.ok) =>
        LET res == epochs[last.res]
        IN  /\ res.event_id = Restricted(last.pre.event_id, res.events)
            /\ \A k \in 1..Len(res.events) :
                  \E name \in DOMAIN res.event_id : res.event_id[name] = Label(res.events[k])
            /\ last.op = "drop_events" =>
                  LET kept == KeptRows(Len(last.pre.events), last.ids)
                  IN  /\ Len(res.events) = Cardinality(kept)
                      /\ Len(res.data) = Cardinality(kept)
                      /\ \A k \in kept :
                            LET pos == Cardinality({j \in kept : j <= k})
                            IN  /\ res.events[pos] = last.pre.events[k]
                                /\ res.data[pos] = last.pre.data[k]

\* C2 witness: drop_events removed a row whose label no other row carries, so
\* that an entry left the dictionary, and kept another row
C2_Witness ==
    /\ last.op = "drop_events"
    /\ Len(epochs[last.res].events) > 0
    /\ Len(epochs[last.res].events) < Len(last.pre.events)
    /\ Cardinality(DOMAIN epochs[last.res].event_id) < Cardinality(Labels(last.pre.events))

\* C3: pick returns a collection that shares no mutable state with its
\* source: after a pick every attribute of the source (tensor, events,
\* dictionary, times and every metadata entry) has its value of before.
C3_PickLeavesSource ==
    (last.op = "pick" /\ last.ok) => EpochsToDict(epochs[last.src], infos) = last.pre

----------------------------------------------------------------------------
(* Event Timeline Parser (read_events, lines 177-215;                       *)
(* events_from_dataframe, lines 218-227)                                    *)

\* A line of a timing file: blank, '*' (no event in the run), or onsets
BlankLine == [kind |-> "blank"]
StarLine == [kind |-> "star"]
OnsetLine(ts) == [kind |-> "nums", ts |-> ts]

\* One line of the file of condition eid (0-based), at line index rid
\* (0-based, blank lines counted), lines 198-208.  st.t[r] holds the (onset,
\* label) pairs of run r: the code's t[r] and e[r], extended in step.
\* t[rid] raises IndexError when rid is not an index of t.
ReadLine(st, eid, rid, line) ==
    IF ~st.ok \/ line.kind = "blank" THEN st
    ELSE LET t1 == IF eid = 0 THEN Append(st.t, <<>>) ELSE st.t
         IN  IF line.kind = "star" THEN [t |-> t1, ok |-> TRUE]
             ELSE IF rid + 1 > Len(t1) THEN [t |-> t1, ok |-> FALSE]
             ELSE [t |-> [t1 EXCEPT ![rid + 1] =
                            @ \o [i \in 1..Len(line.ts) |-> <<line.ts[i], eid + 1>>]],
                   ok |-> TRUE]

\* The lines 1..n of one file (line 198)
RECURSIVE ReadLines(_, _, _, _)
ReadLines(st, eid, lines, n) ==
    IF n = 0 THEN st
    ELSE ReadLine(ReadLines(st, eid, lines, n - 1), eid, n - 1, lines[n])

\* The files 1..n, in the order of the dict (line 196)
RECURSIVE ReadFiles(_, _)
ReadFiles(files, n) ==
    IF n = 0 THEN [t |-> <<>>, ok |-> TRUE]
    ELSE ReadLines(ReadFiles(files, n - 1), n - 1, files[n].lines, Len(files[n].lines))

\* events_run[np.argsort(events_run[:,0])] (lines 213-214): insertion of
\* each row after the rows of no later onset
RECURSIVE SortByOnset(_)
SortByOnset(rows) ==
    IF Len(rows) = 0 THEN <<>>
    ELSE LET n == Len(rows)
             sorted == SortByOnset(SubSeq(rows, 1, n - 1))
             pos == Cardinality({k \in 1..(n - 1) : Onset(sorted[k]) <= Onset(rows[n])})
         IN  SubSeq(sorted, 1, pos) \o <<rows[n]>> \o SubSeq(sorted, pos + 1, n - 1)

\* read_events(event_files): [ok, events, event_id]
ReadEvents(files) ==
    LET st == ReadFiles(files, Len(files))
    IN  [ok |-> st.ok,
         events |-> IF st.ok
                    THEN [r \in 1..Len(st.t) |->
                            SortByOnset([i \in 1..Len(st.t[r]) |->
                                <<st.t[r][i][1], 0, st.t[r][i][2]>>])]
                    ELSE <<>>,
         event_id |-> [name \in {files[i].name : i \in 1..Len(files)} |->
                          CHOOSE id \in 1..Len(files) :
                              /\ files[id].name = name
                              /\ \A j \in (id + 1)..Len(files) : files[j].name # name]]

\* Series.unique(): the values in the order of their first appearance
RECURSIVE Unique(_)
Unique(s) ==
    IF Len(s) = 0 THEN <<>>
    ELSE LET n == Len(s)
             u == Unique(SubSeq(s, 1, n - 1))
         IN  IF s[n] \in Range(u) THEN u ELSE Append(u, s[n])

IndexOf(s, x) == CHOOSE i \in 1..Len(s) : s[i] = x

\* The position (0-based) of a level tuple in itertools.product(*uniques)
RECURSIVE ProductIndex(_, _, _)
ProductIndex(uniques, level, m) ==
    IF m = 0 THEN 0
    ELSE ProductIndex(uniques, level, m - 1) * Len(uniques[m])
            + (IndexOf(uniques[m], level[m]) - 1)

\* The dictionary derived from the table (lines 219-221): the name of a
\* level tuple is the tuple of its tokens, its label the position plus one
DerivedEventId(df, nfactors) ==
    LET uniques == [c \in 1..nfactors |-> Unique([i \in 1..Len(df) |-> df[i].factors[c]])]
        names == {level \in [1..nfactors -> UNION {Range(uniques[c]) : c \in 1..nfactors}] :
                     \A c \in 1..nfactors : level[c] \in Range(uniques[c])}
    IN  [name \in names |-> ProductIndex(uniques, name, nfactors) + 1]

\* events_from_dataframe(df, 'run', 'time', conditions): a row per trial of
\* the run, in the order of the table (lines 225-226)
EventsFromDataframe(df, nfactors) ==
    LET event_id == DerivedEventId(df, nfactors)
        runs == Unique([i \in 1..Len(df) |-> df[i].run])
        Trials(run) == SelectSeq(df, LAMBDA trial : trial.run = run)
    IN  [ok |-> TRUE,
         events |-> [r \in 1..Len(runs) |->
                        [i \in 1..Len(Trials(runs[r])) |->
                            <<Trials(runs[r])[i].time, 0, event_id[Trials(runs[r])[i].factors]>>]],
         event_id |-> event_id]

----------------------------------------------------------------------------
(* SpecEvents: the parser is a pure transform; the initial state holds the  *)
(* input of one call and the action applies the parser to it                *)

\* Files of up to MaxLines lines; a run's onsets need not be in order
Lines == { BlankLine, StarLine, OnsetLine(<<0>>), OnsetLine(<<4>>), OnsetLine(<<4, 0>>) }

LineLists == UNION { [1..n -> Lines] : n \in 0..MaxLines }

TimingFiles ==
    { << [name |-> <<"Physical", "Left">>, lines |-> a],
         [name |-> <<"Physical", "Right">>, lines |-> b] >> : a \in LineLists, b \in LineLists }

\* Trial tables of up to MaxLines rows, two condition factors
TrialRows ==
    [run : {1, 2}, time : {0, 4}, factors : {<<"Physical", "Left">>, <<"Visual", "Right">>}]

TrialTables == UNION { [1..n -> TrialRows] : n \in 0..MaxLines }

InitEvents ==
    /\ rc = [raws |-> <<>>, mask |-> <<>>]
    /\ infos = <<>>
    /\ epochs = <<>>
    /\ store = <<>>
    /\ hist = <<>>
    /\ \/ \E files \in TimingFiles : parsed = [op |-> "files", input |-> files]
       \/ \E df \in TrialTables : parsed = [op |-> "table", input |-> df]
    /\ last = [op |-> "init"]
    /\ ncalls = 0
    /\ evoked = <<>>

\* events, event_id = read_events(event_files)
DoReadEvents ==
    /\ parsed.op = "files"
    /\ parsed' = [op |-> "read_events", input |-> parsed.input,
                  out |-> ReadEvents(parsed.input)]
    /\ UNCHANGED <<rc, infos, epochs, store, hist, last, ncalls, evoked>>

\* events, event_id = events_from_dataframe(df, 'run', 'time', conditions)
DoEventsFromDataframe ==
    /\ parsed.op = "table"
    /\ parsed' = [op |-> "events_from_dataframe", input |-> parsed.input,
                  out |-> EventsFromDataframe(parsed.input, 2)]
    /\ UNCHANGED <<rc, infos, epochs, store, hist, last, ncalls, evoked>>

NextEvents == DoReadEvents \/ DoEventsFromDataframe

SpecEvents == InitEvents /\ [][NextEvents]_vars

----------------------------------------------------------------------------
(* Claims on the parser                                                     *)

Parsed == parsed.op \in {"read_events", "events_from_dataframe"} /\ parsed.out.ok

Ascending(events) == \A k \in 1..(Len(events) - 1) : Onset(events[k]) <= Onset(events[k + 1])

\* C7: both forms of the parser return, for every run, an event array in
\* ascending order of onset, whatever the order of the input.
C7_RunsSortedByOnset ==
    Parsed => \A r \in 1..Len(parsed.out.events) : Ascending(parsed.out.events[r])

\* The number of runs a file describes: its non-blank lines
RunCount(file) == Len(SelectSeq(file.lines, LAMBDA line : line.kind # "blank"))

\* C8: read_events fails whenever the condition files do not all describe
\* the same number of runs, a later file having more or fewer non-blank
\* lines than the first.
C8_RunCountMismatchFails ==
    (/\ parsed.op = "read_events"
     /\ \E i \in 1..Len(parsed.input) : RunCount(parsed.input[i]) # RunCount(parsed.input[1]))
        => ~parsed.out.ok

----------------------------------------------------------------------------
(* SpecCache: the cache paths of RawCache(...) and RawCache.get_epochs(...) *)

MaxCacheCalls == 2

CachePaths == { <<>>, <<"p1">>, <<"p2">> }      \* cache_file: None or a path

\* Raw.from_dict / RawCache.from_dict (lines 97-102, 168-174): the attributes
\* are the keys of the blob; each loaded info dict is a dict of its own, in
\* the heap cells base+1 .. base+n
RawCacheFromDict(d, base) ==
    [raws |-> [i \in 1..Len(d.raws) |->
                  [data |-> d.raws[i].data, times |-> d.raws[i].times,
                   mask |-> d.raws[i].mask, info |-> base + i]],
     mask |-> d.mask]

\* rc = RawCache(fnames, mask, TR, cache_file) (lines 115-126).  Loading a
\* blob without a 'raws' key raises AttributeError at line 172: no cache is
\* returned and the caller's stays.
NewRawCacheCall(fnames, mask, cache_file) ==
    /\ IF ~Exists(cache_file)
       THEN LET heap == infos \o NewInfos(fnames)
                new == [raws |-> NewRaws(fnames, mask, Len(infos)), mask |-> mask]
                d == RawCacheToDict(new, heap)
            IN  /\ rc' = new
                /\ infos' = heap
                /\ store' = IF cache_file # <<>> THEN Save(store, cache_file[1], d) ELSE store
                /\ hist' = IF cache_file # <<>> THEN Record(cache_file[1], d) ELSE hist
                /\ last' = [op |-> "RawCache", ok |-> TRUE, pre |-> RawsView,
                            fnames |-> fnames, mask |-> mask, path |-> cache_file,
                            store0 |-> store, fresh |-> TRUE, result |-> d]
       ELSE LET blob == store[cache_file[1]]
                ok == "raws" \in DOMAIN blob
                new == RawCacheFromDict(blob, Len(infos))
                heap == infos \o [i \in 1..Len(blob.raws) |-> blob.raws[i].info]
            IN  /\ rc' = IF ok THEN new ELSE rc
                /\ infos' = IF ok THEN heap ELSE infos
                /\ last' = [op |-> "RawCache", ok |-> ok, pre |-> RawsView,
                            fnames |-> fnames, mask |-> mask, path |-> cache_file,
                            store0 |-> store, fresh |-> FALSE,
                            result |-> IF ok THEN RawCacheToDict(new, heap) ELSE <<>>]
                /\ UNCHANGED <<store, hist>>
    /\ ncalls' = ncalls + 1
    /\ UNCHANGED <<epochs, parsed, evoked>>

InitCache == InitExtract

\* rc = RawCache(fnames, mask, TR, cache_file=...)
NewRawCache ==
    /\ ncalls < MaxCacheCalls
    /\ \E fnames \in {<<"runA">>, TwoRuns}, mask \in {Voxels, <<"v1">>},
          cache_file \in CachePaths :
            NewRawCacheCall(fnames, mask, cache_file)

\* rc.get_epochs(mask, events, event_id, cache_file=..., tmin=.., tmax=.., dt=..)
CachedGetEpochs ==
    /\ ncalls < MaxCacheCalls
    /\ \E ev \in EventArrays, cache_file \in CachePaths,
          w \in {[tmin |-> -4, tmax |-> 4, dt |-> 2], [tmin |-> -1, tmax |-> 3, dt |-> 2]} :
            GetEpochsCall([i \in 1..Len(rc.mask) |-> TRUE],
                          [i \in 1..Len(rc.raws) |-> ev], <<EventId>>,
                          cache_file, w, BaselineNone)

NextCache == NewRawCache \/ CachedGetEpochs

SpecCache == InitCache /\ [][NextCache]_vars

----------------------------------------------------------------------------
(* Claim on the cache protocol                                              *)

IsCacheCall == last.op \in {"RawCache", "get_epochs"}

\* What a fresh construction from the call's own arguments holds
RECURSIVE Flatten(_)
Flatten(list) == IF Len(list) = 0 THEN <<>> ELSE Head(list) \o Flatten(Tail(list))

BuiltFromArguments ==
    IF last.op = "RawCache"
    THEN /\ last.result.mask = last.mask
         /\ Len(last.result.raws) = Len(last.fnames)
         /\ \A i \in 1..Len(last.fnames) :
               last.result.raws[i].data = MaskDump(last.fnames[i], last.mask)
    ELSE /\ last.result.events = Flatten(last.evs)
         /\ last.result.times = EpochTimes(last.w.tmin, last.w.tmax, last.w.dt)
         /\ last.result.info.tmin = last.w.tmin

\* C9: a call with no cache path writes no blob; a returning call with a
\* path that holds no blob builds its result from its arguments and stores
\* it at the path; a call with a path that holds a blob rewrites nothing,
\* runs no constructor on the recordings and returns the blob's content
\* whatever its arguments are.  Hence no blob is ever replaced, and a
\* returning call with path P returns what was first stored at P.
C9_CacheProtocol ==
    /\ \A p \in DOMAIN store : p \in DOMAIN hist /\ store[p] = hist[p]
    /\ IsCacheCall =>
        /\ last.path = <<>> => store = last.store0
        /\ (last.path # <<>> /\ last.path[1] \notin DOMAIN last.store0 /\ last.ok) =>
              /\ last.fresh
              /\ BuiltFromArguments
              /\ store = Save(last.store0, last.path[1], last.result)
        /\ (last.path # <<>> /\ last.path[1] \in DOMAIN last.store0) =>
              /\ store = last.store0
              /\ ~last.fresh
              /\ last.op = "get_epochs" => RawsView = last.pre
              /\ last.ok => last.result = last.store0[last.path[1]]
        /\ (last.path # <<>> /\ last.ok) => last.result = hist[last.path[1]]

\* A get_epochs call that loaded, from a path stored by an earlier
\* get_epochs, a collection other than the one its own events describe
C9_Witness ==
    /\ last.op = "get_epochs" /\ last.ok /\ ~last.fresh
    /\ last.path # <<>> /\ last.path[1] \in DOMAIN last.store0
    /\ "events" \in DOMAIN last.result
    /\ last.result.events # Flatten(last.evs)
    /\ last.result = hist[last.path[1]]

----------------------------------------------------------------------------
(* concatinate_epochs as a call, and SpecComm: two per-run collections,     *)
(* concatenated and then selected, and selected and then concatenated       *)

\* np.concatenate(..., axis=0) (lines 495-496) raises unless the tensors
\* agree in their feature and time dimensions
SameShape(list) ==
    \A i, j \in 1..Len(list) :
        /\ Len(list[i].times) = Len(list[j].times)
        /\ (Len(list[i].data) > 0 /\ Len(list[j].data) > 0) =>
              Len(list[i].data[1]) = Len(list[j].data[1])

\* ep = concatinate_epochs([epochs[i] for i in idxs]) (lines 493-498)
ConcatCall(idxs) ==
    LET list == [i \in 1..Len(idxs) |-> epochs[idxs[i]]]
        ok == SameShape(list)
    IN  /\ epochs' = IF ok THEN Append(epochs, ConcatinateEpochs(list)) ELSE epochs
        /\ last' = [op |-> "concatinate_epochs", ok |-> ok, res |-> Len(epochs) + 1,
                    srcs |-> idxs, from |-> last]
        /\ ncalls' = ncalls + 1
        /\ UNCHANGED <<rc, infos, store, hist, parsed, evoked>>

\* The two recordings of the cache, extracted with one dictionary and one
\* window: epochs[1] and epochs[2]
InitComm ==
    /\ rc = [raws |-> NewRaws(TwoRuns, Voxels, 0), mask |-> Voxels]
    /\ infos = [i \in 1..2 |-> EpochsInfo(RawInfo(TRTicks), SelWindow, BaselineNone)]
    /\ \E evA \in LabelledEventArrays, evB \in LabelledEventArrays :
          epochs = << EpochsInit(rc.raws[1], evA, EventId, SelWindow, BaselineNone),
                      EpochsInit(rc.raws[2], evB, EventId, SelWindow, BaselineNone) >>
    /\ store = <<>>
    /\ hist = <<>>
    /\ parsed = [op |-> "init"]
    /\ last = [op |-> "init"]
    /\ ncalls = 0
    /\ evoked = <<>>

\* both = concatinate_epochs([epA, epB])                       -> epochs[3]
ConcatRuns == Len(epochs) = 2 /\ ConcatCall(<<1, 2>>)

\* lhs = both[query]                                           -> epochs[4]
PickConcatenated ==
    /\ Len(epochs) = 3
    /\ \E keys \in QueryLists : PickCall(3, SelNames(keys), SelNone, SelNone)

\* a = epA[query]; b = epB[query], the same query              -> epochs[5], [6]
PickRun ==
    /\ Len(epochs) \in {4, 5}
    /\ PickCall(Len(epochs) - 3, last.event, SelNone, SelNone)

\* rhs = concatinate_epochs([a, b])                            -> epochs[7]
ConcatPicked == Len(epochs) = 6 /\ ConcatCall(<<5, 6>>)

NextComm == ConcatRuns \/ PickConcatenated \/ PickRun \/ ConcatPicked

SpecComm == InitComm /\ [][NextComm]_vars

\* C11: picking a label-name query from the concatenation of the per-run
\* collections gives the same tensor rows in the same order, the same event
\* array and the same pruned dictionary as concatenating the per-run picks
\* of that query.
C11_ConcatPickCommute ==
    Len(epochs) = 7 =>
        /\ epochs[4].data = epochs[7].data
        /\ epochs[4].events = epochs[7].events
        /\ epochs[4].event_id = epochs[7].event_id
        /\ epochs[4].times = epochs[7].times

\* C11 witness: the query matched in the second run only, and left out a row
C11_Witness ==
    /\ Len(epochs) = 7
    /\ Len(epochs[5].events) = 0
    /\ Len(epochs[6].events) > 0
    /\ Len(epochs[6].events) < Len(epochs[2].events)
    /\ epochs[7].data = epochs[4].data

----------------------------------------------------------------------------
(* SpecScenario: two runs with events at 10, 30 s and 15, 35 s, labels      *)
(* Cond/X = 1 and Cond/Y = 2, window (-2, 6, 1) s; a second is two ticks    *)

TicksPerSecond == 2

ScenarioEventId ==
    [name \in { <<"Cond", "X">>, <<"Cond", "Y">> } |-> IF name = <<"Cond", "X">> THEN 1 ELSE 2]

ScenarioOnsets == << <<10, 30>>, <<15, 35>> >>

ScenarioWindow ==
    [tmin |-> -2 * TicksPerSecond, tmax |-> 6 * TicksPerSecond, dt |-> 1 * TicksPerSecond]

\* The event arrays of run r, one for each labelling of its two events
ScenarioEvents(r) ==
    { [k \in 1..2 |-> <<ScenarioOnsets[r][k] * TicksPerSecond, 0, lab[k]>>] :
        lab \in [1..2 -> {1, 2}] }

\* The number of rows of the collections so far that carry label 1
RowsLabelled(id) ==
    Cardinality({<<e, k>> \in (1..Len(epochs)) \X (1..2) :
                    k <= Len(epochs[e].events) /\ Label(epochs[e].events[k]) = id})

InitScenario == InitExtract

\* epA = Epochs(rc.raws[0], eventsA, event_id, tmin=-2, tmax=6, dt=1, baseline=...)
\* epB = Epochs(rc.raws[1], eventsB, ...); two of the four events carry label 1
ExtractRun ==
    /\ ncalls \in {0, 1} /\ Len(epochs) = ncalls
    /\ \E events \in ScenarioEvents(ncalls + 1),
          baseline \in {BaselineNone, BaselineAll, DefaultBaseline} :
            /\ ncalls = 1 =>
                  RowsLabelled(1) + Cardinality({k \in 1..2 : Label(events[k]) = 1}) = 2
            /\ EpochsCall(ncalls + 1, events, <<ScenarioEventId>>, ScenarioWindow, baseline)

\* both = concatinate_epochs([epA, epB])
ConcatScenario == ncalls = 2 /\ Len(epochs) = 2 /\ ConcatCall(<<1, 2>>)

\* x = both['Cond/X']
PickScenario ==
    /\ ncalls = 3 /\ Len(epochs) = 3
    /\ PickCall(3, SelNames(<< <<"Cond", "X">> >>), SelNone, SelNone)

NextScenario == ExtractRun \/ ConcatScenario \/ PickScenario

SpecScenario == InitScenario /\ [][NextScenario]_vars

\* C12: every step of the scenario returns, and the selection of "Cond/X"
\* holds exactly the two events labelled 1, in run order, the relative-time
\* grid [-2, -1, 0, 1, 2, 3, 4, 5, 6] s of the length of the tensor's last
\* axis, and the dictionary {"Cond/X": 1}.
C12_Scenario ==
    /\ ncalls > 0 => last.ok /\ Len(epochs) = ncalls
    /\ ncalls = 4 =>
        LET x == epochs[4]
        IN  /\ x.events = SelectSeq(epochs[1].events \o epochs[2].events,
                                    LAMBDA row : Label(row) = 1)
            /\ Len(x.events) = 2 /\ Len(x.data) = 2
            /\ x.times = [j \in 1..9 |-> (j - 3) * TicksPerSecond]
            /\ \A k \in 1..Len(x.data) : \A f \in 1..Len(x.data[k]) :
                  Len(x.data[k][f]) = Len(x.times)
            /\ x.event_id = [name \in { <<"Cond", "X">> } |-> 1]

\* C12 witness: the scenario ran to its end with one event labelled 1 in
\* each run
C12_Witness ==
    /\ ncalls = 4 /\ last.op = "pick" /\ last.ok
    /\ Label(epochs[1].events[2]) = 1
    /\ Label(epochs[2].events[1]) = 1
    /\ epochs[4].events = << epochs[1].events[2], epochs[2].events[1] >>

----------------------------------------------------------------------------
(* Evoked Response (Epochs.aggregate, Epochs.average, lines 395-417;        *)
(* Evoked.__init__, lines 502-515)                                          *)

\* aggregate(event=False, feature=True, time=False) (lines 396-397):
\* np.nanmean over the feature axis, an [n_events, n_times] array
AggregateFeatures(ep) ==
    [k \in 1..Len(ep.data) |->
        [j \in 1..Len(ep.times) |->
            NanMean([f \in 1..Len(ep.data[k]) |-> ep.data[k][f][j]])]]

\* method(x, axis=0) (line 405)
MeanOverEvents(x, ntimes) ==
    [j \in 1..ntimes |-> NanMean([k \in 1..Len(x) |-> x[k][j]])]

\* The keys Evoked.__init__ writes into the dict it is handed (lines 513-515)
EvokedInfo(d, nave, error_type, condition) ==
    SetKey(SetKey(SetKey(d, "nave", nave), "error_type", error_type), "condition", condition)

\* What an Evoked reports of itself: the keys of its info dict
EvokedView(i) ==
    LET d == infos[evoked[i].info]
    IN  [nave |-> d.nave, error_type |-> d.error_type, condition |-> d.condition]

\* ev = epochs[s].average(error=error, condition=condition) (lines 403-417).
\* error is 'bootstrap' (the default) or 'instance'; condition=None is <<>>.
\* np.random.randint(0, ...) raises on a collection without events (line
\* 408).  The bootstrap interval is drawn at random and kept as a token.
\* The Evoked takes the collection's own info dict (line 509).
AverageCall(s, error, condition) ==
    LET src == epochs[s]
        x == AggregateFeatures(src)
        data == MeanOverEvents(x, Len(src.times))
        nave == Len(x)
        ok == ~(error = "bootstrap" /\ nave = 0)
        error_type == IF error = "bootstrap" THEN <<error, 95>> ELSE <<error, <<>> >>
        err == IF error = "bootstrap" THEN <<"percentile interval">>
               ELSE [k \in 1..Len(x) |-> [j \in 1..Len(data) |-> Sub(x[k][j], data[j])]]
        cond == IF condition = <<>> THEN infos[src.info].condition ELSE condition[1]
    IN  /\ infos' = IF ok THEN [infos EXCEPT ![src.info] = EvokedInfo(@, nave, error_type, cond)]
                    ELSE infos
        /\ evoked' = IF ok THEN Append(evoked, [info |-> src.info, data |-> data,
                                                times |-> src.times, error |-> err])
                     ELSE evoked
        /\ last' = [op |-> "average", ok |-> ok, res |-> Len(evoked) + 1, src |-> s,
                    pre |-> EpochsToDict(src, infos), error |-> error,
                    condition |-> condition, from |-> last]
        /\ ncalls' = ncalls + 1
        /\ UNCHANGED <<rc, epochs, store, hist, parsed>>

----------------------------------------------------------------------------
(* SpecEvoked: one Epoch Collection, the collections derived from it, and   *)
(* the Evoked Responses averaged from them                                  *)

MaxEvokedCalls == 3

InitEvoked == InitSel

\* a = ep['Physical'], b = ep['Visual'], c = ep[['Left', 'Right']]
EvPick ==
    /\ ncalls < MaxEvokedCalls
    /\ \E s \in 1..Len(epochs),
          keys \in { << <<"Physical">> >>, << <<"Visual">> >>, << <<"Left">>, <<"Right">> >> } :
            PickCall(s, SelNames(keys), SelNone, SelNone)

\* ev = ep.average(), ep.average(error='instance'), ep.average(condition='Mine')
EvAverage ==
    /\ ncalls < MaxEvokedCalls
    /\ \E s \in 1..Len(epochs), error \in {"bootstrap", "instance"},
          condition \in { <<>>, << << <<"Mine">> >> >> } :
            AverageCall(s, error, condition)

\* ep.apply_baseline((0, 0))
EvApplyBaseline ==
    /\ ncalls < MaxEvokedCalls
    /\ \E s \in 1..Len(epochs) : ApplyBaselineCall(s, BaselineWin(<<0>>, <<0>>))

NextEvoked == EvPick \/ EvAverage \/ EvApplyBaseline

SpecEvoked == InitEvoked /\ [][NextEvoked]_vars

----------------------------------------------------------------------------
(* Claims on the Evoked Response                                            *)

\* C13: an Evoked is read-only after construction: in every step, each
\* Evoked already returned keeps its sample count, its error-kind tag and
\* its condition label; and a step of average() leaves the metadata of the
\* collection it averages as they were.
C13_EvokedReadOnly ==
    [][ /\ \A i \in 1..Len(evoked) : EvokedView(i)' = EvokedView(i)
        /\ (last'.op = "average" /\ last'.ok /\ ncalls' = ncalls + 1) =>
              EpochsToDict(epochs[last'.src], infos') = EpochsToDict(epochs[last'.src], infos)
      ]_vars

\* The queries of the label-name picks, among the calls up to `rec`, that
\* returned the collection epochs[s]
RECURSIVE Producer(_, _)
Producer(rec, s) ==
    IF rec.op = "init" THEN {}
    ELSE (IF rec.op = "pick" /\ rec.ok /\ rec.res = s /\ rec.event.kind = "names"
          THEN {rec.event.keys} ELSE {})
         \cup Producer(rec.from, s)

\* C15: the Evoked that average(), called without a condition, returns for
\* a collection obtained by a label-name pick carries the query of that very
\* pick as its condition label, whatever other picks were made.
C15_LabelledByOwnPick ==
    (last.op = "average" /\ last.ok /\ last.condition = <<>>) =>
        \A query \in Producer(last.from, last.src) :
            EvokedView(last.res).condition = query

----------------------------------------------------------------------------
(* SpecInv: the Epoch Collections reachable by extraction, concatenation,   *)
(* selection, dropping and baseline correction                              *)

MaxInvCalls == 3

InitInv == InitExtract

\* ep = Epochs(raw, events, event_id, tmin, tmax, dt=.., baseline=None), with
\* a dictionary or with the default one
InvExtract ==
    /\ ncalls < MaxInvCalls
    /\ \E r \in 1..Len(rc.raws), events \in EventArrays, event_id \in {<<>>, <<EventId>>},
          w \in {SelWindow, [tmin |-> 0, tmax |-> 4, dt |-> 2]} :
            EpochsCall(r, events, event_id, w, BaselineNone)

\* ep = concatinate_epochs([a, b])
InvConcat ==
    /\ ncalls < MaxInvCalls
    /\ \E a \in 1..Len(epochs), b \in 1..Len(epochs) : ConcatCall(<<a, b>>)

\* ep[name], ep[[i, ...]], ep.pick(time=(lo, hi)), ep.pick(time=[j, ...])
InvPick ==
    /\ ncalls < MaxInvCalls
    /\ \E s \in 1..Len(epochs) :
          \/ \E event \in {SelNames(<< <<"Physical">> >>), SelNames(<< <<"1">> >>),
                           SelMask([k \in 1..Len(epochs[s].events) |-> k = 1])} :
                PickCall(s, event, SelNone, SelNone)
          \/ \E time \in {SelRange(0, 4), SelIndex(<<2, 1, 0>>), SelIndex(<<0, 0, 1>>)} :
                /\ time.kind = "index" =>
                      \A i \in 1..Len(time.idx) : time.idx[i] < Len(epochs[s].times)
                /\ PickCall(s, SelNone, SelNone, time)

\* ep.drop_events([0])
InvDrop ==
    /\ ncalls < MaxInvCalls
    /\ \E s \in 1..Len(epochs) : Len(epochs[s].events) > 0 /\ DropEventsCall(s, {0})

\* ep.apply_baseline((-2, 0))
InvApplyBaseline ==
    /\ ncalls < MaxInvCalls
    /\ \E s \in 1..Len(epochs) : ApplyBaselineCall(s, DefaultBaseline)

NextInv == InvExtract \/ InvConcat \/ InvPick \/ InvDrop \/ InvApplyBaseline

SpecInv == InitInv /\ [][NextInv]_vars

\* C14: in every Epoch Collection the tensor has a row per event row, every
\* label of the event array has an entry in the dictionary, and the
\* relative-time vector is strictly increasing and as long as the tensor's
\* last axis.
C14_CollectionInvariant ==
    \A e \in 1..Len(epochs) :
        LET ep == epochs[e]
        IN  /\ Len(ep.data) = Len(ep.events)
            /\ \A k \in 1..Len(ep.events) :
                  \E name \in DOMAIN ep.event_id : ep.event_id[name] = Label(ep.events[k])
            /\ \A j \in 1..(Len(ep.times) - 1) : ep.times[j] < ep.times[j + 1]
            /\ \A k \in 1..Len(ep.data) : \A f \in 1..Len(ep.data[k]) :
                  Len(ep.data[k][f]) = Len(ep.times)

=============================================================================
